---- MODULE Spec2Model ----
(***************************************************************************)
(* A model of the generation orchestrator (generateFromTemplate,           *)
(* frontMatter, handlePatches) and of the markup tools (updateFiles,       *)
(* deleteFiles, removeEmptyDirs, the line and block transforms) of         *)
(* note-ignite.                                                            *)
(***************************************************************************)
EXTENDS Integers, Sequences, FiniteSets, TLC

VARIABLES
  mode,          \* which operation this behaviour runs: "gen", "upd", "del", "dirs"
  \* ---- generateFromTemplate ----
  templateFiles, \* the discovered templates, in discovery order
  overwrite,     \* options.overwrite
  fs,            \* the project's files: path -> [kind, data]
  fs0,           \* the project's files before the first run
  written,       \* result list: newly written destinations
  overwritten,   \* result list: overwritten destinations
  exists,        \* result list: destinations left alone
  tIdx,          \* position of the for-loop over templateFiles
  gpc,           \* "loop", "done" (returned) or "threw" (an exception left the call)
  run,           \* 1 for the first call, 2 for the repeated call
  prev,          \* what the first call returned and left on disk
  log,           \* the filesystem and render calls made by the current call, in order
  outcome,       \* per loop iteration of the current call: the branch taken, the destination
  \* ---- updateFiles, deleteFiles ----
  disk,          \* the files of filePaths: path -> [kind, data]
  disk0,         \* the files before the first call
  dryRun,        \* the dryRun option (of removeEmptyDirs too)
  removeMarkupOnly, \* the removeMarkupOnly option
  lastIndex,     \* searchRegex.lastIndex
  updatedFiles,  \* result list of updateFiles
  skippedFiles,  \* result list of updateFiles
  removedFiles,  \* result list of deleteFiles
  fIdx,          \* position of the for-loop over filePaths
  upc,           \* "loop", "done" (returned) or "threw"
  call,          \* 1 for the first call of updateFiles, 2 for the second
  first,         \* the options and the result of the first call
  \* ---- removeEmptyDirs ----
  tree,          \* the directories under targetDir: parent, hasFile, excluded
  present,       \* the directories that exist
  emptyDirPaths, \* the result of the latest scan
  removedDirs,   \* result list of removeEmptyDirs
  dpc,           \* "start", "loop", "rescan" or "done"
  \* ---- the text and name functions, called on their own ----
  fn,            \* the function that was called, "none" before the call
  input,         \* its argument: a text, or a relative path
  caseOption,    \* options.case
  output,        \* what the call returned: [ok, text]
  \* ---- the commands generate, remove-demo and remove-mst ----
  command,       \* the command that runs
  parameters,    \* toolbox.parameters: first, second and the options
  installed,     \* the generators in the project's ignite/templates
  igniteProject, \* whether ./ignite is a directory
  cpc,           \* "start", "generate", "updated", "done" or "threw"
  invoked,       \* the calls the command has made, in order
  results        \* what `await updateFiles(...)` gave the command

genVars == <<templateFiles, overwrite, fs, fs0, written, overwritten, exists,
             tIdx, gpc, run, prev, log, outcome>>
updVars == <<disk, disk0, removeMarkupOnly, lastIndex, updatedFiles, skippedFiles,
             removedFiles, fIdx, upc, call, first>>
dirVars == <<tree, present, emptyDirPaths, removedDirs, dpc>>
txtVars == <<fn, input, caseOption, output>>
cmdVars == <<command, parameters, installed, igniteProject, cpc, invoked, results>>
vars == <<mode, dryRun, genVars, updVars, dirVars, txtVars, cmdVars>>

(***************************************************************************)
(* Bounds                                                                  *)
(***************************************************************************)
MaxTemplates == 2
MaxFiles == 2
MaxDirs == 3

Range(s) == {s[i] : i \in 1..Len(s)}

(***************************************************************************)
(* generateFromTemplate: the project's files                               *)
(***************************************************************************)
\* The default destination of the i-th template: the template's own file name
\* with .ejs removed, so different templates have different defaults.
DestNames == <<"app/t1", "app/t2", "app/t3", "app/t4">>
DefaultDest(i) == DestNames[i]
\* The text ejs.render makes of the i-th template's body.
RenderNames == <<"text1", "text2", "text3", "text4">>
Rendered(i) == RenderNames[i]
\* A directory of the project: writing a file at this path fails.
DirPath == "app/dir"
\* A file of the project that exists before generation (a patch target).
ProjectFile == "app/index"
\* A path at which nothing exists (a patch target that is missing).
MissingFile == "app/nothing"

Dests == {DefaultDest(i) : i \in 1..MaxTemplates}
GenPaths == Dests \cup {DirPath, ProjectFile, MissingFile}

Missing == [kind |-> "missing", data |-> <<>>]
Dir == [kind |-> "dir", data |-> <<>>]
File(d) == [kind |-> "file", data |-> d]

\* filesystem.exists(path): "file", "dir" or false
fsExists(f, p) == f[p].kind

(***************************************************************************)
(* Templates                                                               *)
(***************************************************************************)
\* fm: what the text of the template is for the front-matter parser
\*   "none"      no separator: one part
\*   "ok"        two separators around a well-formed mapping: three parts
\*   "malformed" three parts, the second is not well-formed YAML
\*   "multi"     a part count other than 1 or 3
\* path: the front matter's `path` ("default" when it has none)
\* renders: whether ejs.render succeeds on the body
\* patches, patch: the front matter's `patches` list and its single `patch`
\*   (a sequence of no or one directive)
NoPatch == <<>>
\* A directive: its target, `skip`, whether it declares append, prepend and
\* replace, and whether it has options of the generic patcher (insert, after).
Directive(p, sk, ap, pre, re, gen) ==
  [path |-> p, skip |-> sk, append |-> ap, prepend |-> pre, replace |-> re,
   generic |-> gen]
Declared(ps, single) == [patches |-> ps, patch |-> single]
None == Declared(NoPatch, NoPatch)
PatchSeqs ==
  { None,
    Declared(<<Directive(ProjectFile, FALSE, TRUE, FALSE, FALSE, FALSE)>>, NoPatch),
    Declared(<<Directive(MissingFile, FALSE, TRUE, FALSE, FALSE, FALSE),
               Directive(ProjectFile, FALSE, FALSE, TRUE, FALSE, FALSE)>>, NoPatch) }
\* Declarations with a single `patch`, with replace and generic options, with
\* `skip: true`.
MorePatchSeqs ==
  { Declared(<<Directive(ProjectFile, FALSE, TRUE, TRUE, TRUE, TRUE)>>,
             <<Directive(ProjectFile, FALSE, FALSE, FALSE, TRUE, FALSE)>>),
    Declared(<<Directive(ProjectFile, TRUE, TRUE, TRUE, FALSE, TRUE)>>,
             <<Directive(ProjectFile, FALSE, FALSE, FALSE, FALSE, TRUE)>>),
    Declared(NoPatch,
             <<Directive(MissingFile, FALSE, FALSE, FALSE, FALSE, TRUE)>>) }

Template(b, f, p, r, ps) ==
  [blank |-> b, fm |-> f, path |-> p, renders |-> r, patches |-> ps.patches,
   patch |-> ps.patch]
PathChoices == {"default", DefaultDest(1), DirPath}
TemplateSet ==
  { Template(TRUE, "none", "default", TRUE, None),
    Template(FALSE, "malformed", "default", TRUE, None),
    Template(FALSE, "multi", "default", TRUE, None) }
  \cup { Template(FALSE, "none", "default", r, None) : r \in BOOLEAN }
  \cup { Template(FALSE, "ok", p, FALSE, None) : p \in PathChoices }
  \cup { Template(FALSE, "ok", p, TRUE, ps) : p \in PathChoices, ps \in PatchSeqs }
  \cup { Template(FALSE, "ok", "default", TRUE, ps) : ps \in MorePatchSeqs }

(***************************************************************************)
(* frontMatter                                                             *)
(***************************************************************************)
\* The parser's result: "parts" with the data it read, "empty" for the bare {}
\* it returns on any other part count, "throws" when YAML.parse raises.
NoData == [path |-> "default", patches |-> NoPatch, patch |-> NoPatch]
frontMatter(t) ==
  CASE t.fm = "none" -> [result |-> "parts", data |-> NoData]
    [] t.fm = "ok" -> [result |-> "parts",
                       data |-> [path |-> t.path, patches |-> t.patches,
                                 patch |-> t.patch]]
    [] t.fm = "malformed" -> [result |-> "throws", data |-> NoData]
    [] OTHER -> [result |-> "empty", data |-> NoData]

(***************************************************************************)
(* handlePatches                                                           *)
(***************************************************************************)
\* A call logged: the template, the operation, the path, whether it returned,
\* and for a call of the generic patcher the option keys it was given.
PatchEv(i, o, p, k, keys) == [t |-> i, op |-> o, path |-> p, ok |-> k, opts |-> keys]
Ev(i, o, p, k) == PatchEv(i, o, p, k, {})

\* `const { path: patchPath, skip, ...patchOpts } = patch`: the keys of patchOpts
patchOpts(patch) ==
  (IF patch.append THEN {"append"} ELSE {})
  \cup (IF patch.prepend THEN {"prepend"} ELSE {})
  \cup (IF patch.replace THEN {"replace"} ELSE {})
  \cup (IF patch.generic THEN {"insert", "after"} ELSE {})

\* Mutant: the generic patcher is called before the other operations.
PatchOpsPatchFirst(patch) ==
  <<"patch">>
  \o (IF patch.append THEN <<"append">> ELSE <<>>)
  \o (IF patch.prepend THEN <<"prepend">> ELSE <<>>)
  \o (IF patch.replace THEN <<"replace">> ELSE <<>>)

\* The patching calls one directive makes, in the order of the code: the call
\* of patching.patch is under no condition.
PatchOps(patch) ==
  (IF patch.append THEN <<"append">> ELSE <<>>)
  \o (IF patch.prepend THEN <<"prepend">> ELSE <<>>)
  \o (IF patch.replace THEN <<"replace">> ELSE <<>>)
  \o <<"patch">>

\* What a patching call makes of the file's text. The generic patcher inserts
\* when it has an insert option and nothing to replace.
PatchedData(data, o, patch) ==
  CASE o = "append" -> Append(data, "appended")
    [] o = "prepend" -> <<"prepended">> \o data
    [] o = "replace" -> Append(data, "replaced")
    [] OTHER -> IF patch.generic /\ ~patch.replace THEN Append(data, "inserted")
                ELSE data

\* Each patching call reads the target first and raises when it is no file.
RECURSIVE RunOps(_, _, _, _)
RunOps(s, i, patch, ops) ==
  LET p == patch.path
      keys == IF Head(ops) = "patch" THEN patchOpts(patch) ELSE {}
  IN IF ops = <<>> \/ s.threw THEN s
     ELSE IF fsExists(s.fs, p) # "file"
       THEN [s EXCEPT !.threw = TRUE,
                      !.log = Append(@, PatchEv(i, Head(ops), p, FALSE, keys))]
       ELSE RunOps([s EXCEPT !.fs[p] = File(PatchedData(@.data, Head(ops), patch)),
                             !.log = Append(@, PatchEv(i, Head(ops), p, TRUE, keys))],
                   i, patch, Tail(ops))

RECURSIVE applyPatches(_, _, _)
\* `for (const patch of patches)`: an exception ends the loop and the call.
applyPatches(s, i, patches) ==
  IF patches = <<>> \/ s.threw THEN s
  ELSE LET patch == Head(patches)
           s1 == IF patch.path # "" /\ ~patch.skip
                 THEN RunOps(s, i, patch, PatchOps(patch))
                 ELSE s
       IN applyPatches(s1, i, Tail(patches))

\* `patches = data.patches ?? []; if (data.patch) patches.push(data.patch)`
handlePatches(s, i, data) == applyPatches(s, i, data.patches \o data.patch)

(***************************************************************************)
(* generateFromTemplate: one iteration of the loop over templateFiles      *)
(***************************************************************************)
relativePath(data, i) == IF data.path # "default" THEN data.path ELSE DefaultDest(i)

\* options.case is left at "auto": the file name is used as computed.
targetPath(data, i) == relativePath(data, i)

\* Mutant: the existence test never answers "file".
pathExistsAtNever(f, p) == FALSE

pathExistsAt(f, p) == fsExists(f, p) = "file"

\* Mutant: the existing destination is never skipped.
skipExistingNever(pathExists, ow) == FALSE

skipExisting(pathExists, ow) == pathExists /\ ~ow

\* filesystem.write raises when the destination is a directory.
writeFails(f, p) == fsExists(f, p) = "dir"

\* Mutant: an overwritten destination is recorded as written too.
trackStatusBoth(s, pathExists, target) ==
  IF pathExists
  THEN [s EXCEPT !.overwritten = Append(@, target), !.written = Append(@, target)]
  ELSE [s EXCEPT !.written = Append(@, target)]

\* The list the destination is recorded in after a successful write.
trackStatus(s, pathExists, target) ==
  IF pathExists
  THEN [s EXCEPT !.overwritten = Append(@, target)]
  ELSE [s EXCEPT !.written = Append(@, target)]

\* Mutant: the destination is recorded before the template is rendered.
tryGenerateTrackFirst(s, i, t, data, target, pathExists) ==
  LET s0 == trackStatus(s, pathExists, target)
  IN IF ~t.renders
     THEN [s0 EXCEPT !.log = Append(@, Ev(i, "render", target, FALSE)),
                     !.branch = "renderFailed"]
     ELSE LET s1 == [s0 EXCEPT !.log = Append(@, Ev(i, "render", target, TRUE))]
          IN IF writeFails(s1.fs, target)
             THEN [s1 EXCEPT !.log = Append(@, Ev(i, "write", target, FALSE)),
                             !.branch = "writeFailed"]
             ELSE LET s2 == [s1 EXCEPT !.fs[target] = File(<<Rendered(i)>>),
                                       !.log = Append(@, Ev(i, "write", target, TRUE))]
                      s4 == IF data.patches # NoPatch \/ data.patch # NoPatch
                            THEN handlePatches(s2, i, data)
                            ELSE s2
                  IN [s4 EXCEPT !.branch = IF s4.threw THEN "patchFailed"
                                           ELSE IF pathExists THEN "overwritten"
                                           ELSE "written",
                                !.threw = FALSE]

\* The try block: render, write, record, patch. An exception raised inside is
\* caught by the catch clause, which logs it and lets the loop go on.
tryGenerate(s, i, t, data, target, pathExists) ==
  IF ~t.renders
  THEN [s EXCEPT !.log = Append(@, Ev(i, "render", target, FALSE)),
                 !.branch = "renderFailed"]
  ELSE LET s1 == [s EXCEPT !.log = Append(@, Ev(i, "render", target, TRUE))]
       IN IF writeFails(s1.fs, target)
          THEN [s1 EXCEPT !.log = Append(@, Ev(i, "write", target, FALSE)),
                          !.branch = "writeFailed"]
          ELSE LET s2 == [s1 EXCEPT !.fs[target] = File(<<Rendered(i)>>),
                                    !.log = Append(@, Ev(i, "write", target, TRUE))]
                   s3 == trackStatus(s2, pathExists, target)
                   s4 == IF data.patches # NoPatch \/ data.patch # NoPatch
                         THEN handlePatches(s3, i, data)
                         ELSE s3
               IN [s4 EXCEPT !.branch = IF s4.threw THEN "patchFailed"
                                        ELSE IF pathExists THEN "overwritten"
                                        ELSE "written",
                             !.threw = FALSE]

\* The body of the loop for template i. uncaught: an exception left the call.
loopBody(s, i, t) ==
  IF t.blank THEN [s EXCEPT !.branch = "blank"]
  ELSE LET parsed == frontMatter(t)
       IN IF parsed.result = "throws"
          THEN [s EXCEPT !.branch = "parseThrew", !.uncaught = TRUE]
          ELSE IF parsed.result = "empty"
          \* `data` is undefined: reading data.path raises a TypeError
          THEN [s EXCEPT !.branch = "noData", !.uncaught = TRUE]
          ELSE LET data == parsed.data
                   target == targetPath(data, i)
                   pathExists == pathExistsAt(s.fs, target)
                   s1 == [s EXCEPT !.target = target]
               IN IF skipExisting(pathExists, overwrite)
                  THEN [s1 EXCEPT !.exists = Append(@, target), !.branch = "exists"]
                  ELSE tryGenerate(s1, i, t, data, target, pathExists)

GenState ==
  [fs |-> fs, written |-> written, overwritten |-> overwritten, exists |-> exists,
   log |-> log, branch |-> "", target |-> "", threw |-> FALSE, uncaught |-> FALSE]

(***************************************************************************)
(* generateFromTemplate: the state machine                                 *)
(***************************************************************************)
NoResult == [written |-> <<>>, overwritten |-> <<>>, exists |-> <<>>]

\* The values of the variables of the operations a behaviour does not run.
GenIdle ==
  /\ templateFiles = <<>> /\ overwrite = FALSE
  /\ fs = <<>> /\ fs0 = <<>>
  /\ written = <<>> /\ overwritten = <<>> /\ exists = <<>>
  /\ tIdx = 0 /\ gpc = "idle" /\ run = 0
  /\ prev = <<>> /\ log = <<>> /\ outcome = <<>>
UpdIdle ==
  /\ disk = <<>> /\ disk0 = <<>>
  /\ removeMarkupOnly = FALSE /\ lastIndex = 0
  /\ updatedFiles = <<>> /\ skippedFiles = <<>> /\ removedFiles = <<>>
  /\ fIdx = 0 /\ upc = "idle" /\ call = 0 /\ first = <<>>
DirsIdle ==
  /\ tree = <<>> /\ present = {}
  /\ emptyDirPaths = <<>> /\ removedDirs = <<>> /\ dpc = "idle"
NoReturn == [ok |-> TRUE, text |-> <<>>]
TxtIdle ==
  /\ fn = "idle" /\ input = <<>> /\ caseOption = "auto" /\ output = NoReturn
NoParameters ==
  [first |-> "none", second |-> FALSE, help |-> FALSE, list |-> FALSE,
   update |-> FALSE]
CmdIdle ==
  /\ command = "none" /\ parameters = NoParameters /\ installed = {}
  /\ igniteProject = FALSE /\ cpc = "idle" /\ invoked = <<>> /\ results = "none"

InitGen ==
  /\ mode = "gen"
  /\ templateFiles \in [1..MaxTemplates -> TemplateSet]
  /\ overwrite \in BOOLEAN
  /\ fs0 \in [GenPaths -> {Missing, Dir, File(<<"old">>)}]
  /\ fs0[DirPath] = Dir
  /\ fs0[ProjectFile] = File(<<"old">>)
  /\ fs0[MissingFile] = Missing
  /\ \A d \in Dests : fs0[d] # Dir
  /\ fs = fs0
  /\ written = <<>> /\ overwritten = <<>> /\ exists = <<>>
  /\ tIdx = 1
  /\ gpc = "loop"
  /\ run = 1
  /\ prev = [result |-> NoResult, fs |-> fs0]
  /\ log = <<>>
  /\ outcome = <<>>
  /\ dryRun = FALSE
  /\ UpdIdle
  /\ DirsIdle
  /\ TxtIdle
  /\ CmdIdle

\* One iteration of `for (const templateFilename of templateFiles)`.
GenerateStep ==
  /\ mode = "gen" /\ gpc = "loop" /\ tIdx <= Len(templateFiles)
  /\ LET t == templateFiles[tIdx]
         r == loopBody(GenState, tIdx, t)
     IN /\ fs' = r.fs
        /\ written' = r.written
        /\ overwritten' = r.overwritten
        /\ exists' = r.exists
        /\ log' = r.log
        /\ outcome' = Append(outcome, [branch |-> r.branch, target |-> r.target])
        /\ gpc' = IF r.uncaught THEN "threw" ELSE "loop"
        /\ tIdx' = IF r.uncaught THEN tIdx ELSE tIdx + 1
  /\ UNCHANGED <<mode, dryRun, templateFiles, overwrite, fs0, run, prev, updVars,
                 dirVars, txtVars, cmdVars>>

\* `return { written, overwritten, exists }`
GenerateReturn ==
  /\ mode = "gen" /\ gpc = "loop" /\ tIdx > Len(templateFiles)
  /\ gpc' = "done"
  /\ UNCHANGED <<mode, dryRun, templateFiles, overwrite, fs, fs0, written, overwritten,
                 exists, tIdx, run, prev, log, outcome, updVars, dirVars, txtVars, cmdVars>>

\* The same call made again, with the same generator and options, on the
\* project as the first call left it.
GenerateAgain ==
  /\ mode = "gen" /\ gpc = "done" /\ run = 1
  /\ prev' = [result |-> [written |-> written, overwritten |-> overwritten,
                          exists |-> exists],
              fs |-> fs]
  /\ written' = <<>> /\ overwritten' = <<>> /\ exists' = <<>>
  /\ tIdx' = 1
  /\ gpc' = "loop"
  /\ run' = 2
  /\ log' = <<>>
  /\ outcome' = <<>>
  /\ UNCHANGED <<mode, dryRun, templateFiles, overwrite, fs, fs0, updVars, dirVars,
                 txtVars, cmdVars>>

NextGen == GenerateStep \/ GenerateReturn \/ GenerateAgain

SpecGen == InitGen /\ [][NextGen]_vars

(***************************************************************************)
(* Text. A text is a sequence of symbols; "\n" ends a line. The prefix, each *)
(* marker kind and each other word is one symbol; "/" is one symbol, so the *)
(* comment token // is two.                                                *)
(***************************************************************************)
NL == "\n"

RECURSIVE SplitFrom(_, _, _, _)
SplitFrom(str, i, cur, acc) ==
  IF i > Len(str) THEN Append(acc, cur)
  ELSE IF str[i] = NL THEN SplitFrom(str, i + 1, <<>>, Append(acc, cur))
  ELSE SplitFrom(str, i + 1, Append(cur, str[i]), acc)

\* contents.split("\n"): the empty text is one empty line
Split(str) == SplitFrom(str, 1, <<>>, <<>>)

RECURSIVE Join(_)
\* lines.join("\n")
Join(lines) ==
  IF lines = <<>> THEN <<>>
  ELSE IF Len(lines) = 1 THEN lines[1]
  ELSE lines[1] \o <<NL>> \o Join(Tail(lines))

\* The positions at which pat occurs in str.
Occurrences(str, pat) ==
  {i \in 1..(Len(str) - Len(pat) + 1) : SubSeq(str, i, i + Len(pat) - 1) = pat}

Min(S) == CHOOSE x \in S : \A y \in S : x <= y
Max(S) == CHOOSE x \in S : \A y \in S : x >= y

\* str.includes(pat)
Includes(str, pat) == Occurrences(str, pat) # {}

\* str.replace(pat, by) with a string pattern: the first occurrence only
ReplaceFirst(str, pat, by) ==
  IF ~Includes(str, pat) THEN str
  ELSE LET i == Min(Occurrences(str, pat))
       IN SubSeq(str, 1, i - 1) \o by \o SubSeq(str, i + Len(pat), Len(str))

\* str.trim()
Trim(str) ==
  LET inked == {i \in 1..Len(str) : str[i] # " "}
  IN IF inked = {} THEN <<>> ELSE SubSeq(str, Min(inked), Max(inked))

RECURSIVE KeepLines(_, _, _)
\* lines.filter: the lines whose index is in keep, in order
KeepLines(lines, keep, i) ==
  IF i > Len(lines) THEN <<>>
  ELSE (IF i \in keep THEN <<lines[i]>> ELSE <<>>) \o KeepLines(lines, keep, i + 1)

(***************************************************************************)
(* Marker comments                                                         *)
(***************************************************************************)
RemoveCurrentLine == "remove-current-line"
RemoveNextLine == "remove-next-line"
RemoveBlockStart == "remove-block-start"
RemoveBlockEnd == "remove-block-end"
RemoveFile == "remove-file"
ReplaceNextLine == "replace-next-line"
MarkupComments ==
  {RemoveCurrentLine, RemoveNextLine, RemoveBlockStart, RemoveBlockEnd,
   RemoveFile, ReplaceNextLine}

markupComment(prefix, commentType) == <<prefix, " ", commentType>>

\* The position after the line that holds position i (of its "\n", or Len + 1).
LineEnd(str, i) ==
  LET ends == {j \in i..Len(str) : str[j] = NL}
  IN IF ends = {} THEN Len(str) + 1 ELSE Min(ends)

\* First alternative of the pattern at position i: (//|#)s*<prefix>.*
\* The template literal turns `\/` into `/` and `\s` into the letter s.
\* The position after the match, or 0.
singleLineAlt(prefix, str, i) ==
  LET k == IF i + 1 <= Len(str) /\ str[i] = "/" /\ str[i + 1] = "/" THEN i + 2
           ELSE IF str[i] = "#" THEN i + 1
           ELSE 0
      rest == {j \in k..Len(str) : str[j] # "s"}
  IN IF k = 0 \/ rest = {} THEN 0
     ELSE IF str[Min(rest)] = prefix THEN LineEnd(str, Min(rest)) ELSE 0

\* Second alternative at position i: {?/.*<prefix>.*/}?
blockAlt(prefix, str, i) ==
  LET slash == IF i + 1 <= Len(str) /\ str[i] = "{" /\ str[i + 1] = "/" THEN i + 1
               ELSE IF str[i] = "/" THEN i
               ELSE 0
      le == LineEnd(str, slash + 1)
      closing == {q \in (slash + 1)..(le - 1) :
                    /\ str[q] = "/"
                    /\ \E r \in (slash + 1)..(q - 1) : str[r] = prefix}
  IN IF slash = 0 \/ closing = {} THEN 0
     ELSE LET q == Max(closing)
          IN IF q + 1 <= Len(str) /\ str[q + 1] = "}" THEN q + 2 ELSE q + 1

\* The pattern of markupRegex(prefix) tried at position i of str: the position
\* after the match, or 0 when it does not match there.
markupRegex(prefix, str, i) ==
  IF singleLineAlt(prefix, str, i) # 0
  THEN singleLineAlt(prefix, str, i)
  ELSE blockAlt(prefix, str, i)

\* The first match at or after position from: [start, end], start = 0 for none.
exec(prefix, str, from) ==
  LET starts == {i \in from..Len(str) : markupRegex(prefix, str, i) # 0}
  IN IF starts = {} THEN [start |-> 0, end |-> 0]
     ELSE [start |-> Min(starts), end |-> markupRegex(prefix, str, Min(starts))]

\* Mutant: the test finds a match in every text.
regexTestAlways(prefix, str, lastIdx) == [found |-> TRUE, lastIndex |-> lastIdx]

\* searchRegex.test(contents) of a pattern with the g flag: the search starts
\* at lastIndex (counted from 0), a match leaves lastIndex after it, a failure
\* resets lastIndex to 0.
regexTest(prefix, str, lastIdx) ==
  LET m == exec(prefix, str, lastIdx + 1)
  IN IF m.start = 0 THEN [found |-> FALSE, lastIndex |-> 0]
     ELSE [found |-> TRUE, lastIndex |-> m.end - 1]

RECURSIVE replaceFrom(_, _, _)
replaceFrom(prefix, str, from) ==
  LET m == exec(prefix, str, from)
  IN IF m.start = 0 THEN SubSeq(str, from, Len(str))
     ELSE SubSeq(str, from, m.start - 1) \o replaceFrom(prefix, str, m.end)

\* Mutant: the lines that hold the prefix are removed whole.
regexReplaceLines(prefix, str) ==
  LET lines == Split(str)
  IN Join(KeepLines(lines, {i \in 1..Len(lines) : ~Includes(lines[i], <<prefix>>)}, 1))

\* contents.replace(searchRegex, ""): every match removed, lastIndex left at 0
regexReplace(prefix, str) == replaceFrom(prefix, str, 1)

(***************************************************************************)
(* The line and block transforms                                           *)
(***************************************************************************)
\* Mutant: every line that holds the prefix is dropped.
removeCurrentLinePrefix(contents, comment) ==
  LET lines == Split(contents)
  IN Join(KeepLines(lines, {i \in 1..Len(lines) : ~Includes(lines[i], <<comment[1]>>)}, 1))

removeCurrentLine(contents, comment) ==
  LET lines == Split(contents)
  IN Join(KeepLines(lines, {i \in 1..Len(lines) : ~Includes(lines[i], comment)}, 1))

\* Mutant: the line after a marker is dropped, the marker line is kept.
removeNextLineKeepsMarker(contents, comment) ==
  LET lines == Split(contents)
  IN Join(KeepLines(lines, {i \in 1..Len(lines) :
                              i = 1 \/ ~Includes(lines[i - 1], comment)}, 1))

removeNextLine(contents, comment) ==
  LET lines == Split(contents)
      keepLine(i) ==
        LET preserveCurrent == ~Includes(lines[i], comment)
            preservePrevious == i > 1 /\ ~Includes(lines[i - 1], comment)
        IN IF i = 1 THEN preserveCurrent ELSE preserveCurrent /\ preservePrevious
  IN Join(KeepLines(lines, {i \in 1..Len(lines) : keepLine(i)}, 1))

replaceNextLine(contents, comment) ==
  LET lines == Split(contents)
      mapped == [i \in 1..Len(lines) |->
                   IF i > 1 /\ Includes(lines[i - 1], comment)
                   THEN Trim(ReplaceFirst(ReplaceFirst(lines[i - 1], <<"/", "/">>, <<>>),
                                          comment, <<>>))
                   ELSE lines[i]]
  IN Join(KeepLines(mapped, {i \in 1..Len(mapped) : ~Includes(mapped[i], comment)}, 1))

\* findIndex: the first line that includes c, 0 for NOT_FOUND
findIndex(lines, c) ==
  LET hits == {i \in 1..Len(lines) : Includes(lines[i], c)}
  IN IF hits = {} THEN 0 ELSE Min(hits)

\* Mutant: the last line of the range is left in place.
SpliceKeepsLast(lines, start, count) ==
  IF count < 2 THEN lines
  ELSE SubSeq(lines, 1, start - 1) \o SubSeq(lines, start + count - 1, Len(lines))

\* lines.splice(start, count): a count below 1 removes nothing
Splice(lines, start, count) ==
  IF count < 1 THEN lines
  ELSE SubSeq(lines, 1, start - 1) \o SubSeq(lines, start + count, Len(lines))

RECURSIVE removeBlocks(_, _, _)
\* The result is [ok, text]; ok is FALSE when the recursion never ends (the
\* text it recurses on is the text it was given) and the call stack overflows.
removeBlocks(contents, start, end) ==
  LET lines == Split(contents)
      blockStartIndex == findIndex(lines, start)
      blockEndIndex == findIndex(lines, end)
      blockExists == blockStartIndex # 0 /\ blockEndIndex # 0
      spliced == IF blockExists
                 THEN Splice(lines, blockStartIndex, blockEndIndex - blockStartIndex + 1)
                 ELSE lines
      updateContents == Join(spliced)
      anotherBlockExists == findIndex(spliced, start) # 0 /\ findIndex(spliced, end) # 0
  IN IF ~anotherBlockExists THEN [ok |-> TRUE, text |-> updateContents]
     ELSE IF updateContents = contents THEN [ok |-> FALSE, text |-> contents]
     ELSE removeBlocks(updateContents, start, end)

\* Mutant: next-line removal runs before current-line removal.
updateFileNextLineFirst(contents, markupPrefix) ==
  LET r1 == removeBlocks(contents, markupComment(markupPrefix, RemoveBlockStart),
                         markupComment(markupPrefix, RemoveBlockEnd))
      r2 == removeNextLine(r1.text, markupComment(markupPrefix, RemoveNextLine))
      r3 == removeCurrentLine(r2, markupComment(markupPrefix, RemoveCurrentLine))
      r4 == replaceNextLine(r3, markupComment(markupPrefix, ReplaceNextLine))
  IN IF r1.ok THEN [ok |-> TRUE, text |-> r4] ELSE r1

updateFile(contents, markupPrefix) ==
  LET r1 == removeBlocks(contents, markupComment(markupPrefix, RemoveBlockStart),
                         markupComment(markupPrefix, RemoveBlockEnd))
      r2 == removeCurrentLine(r1.text, markupComment(markupPrefix, RemoveCurrentLine))
      r3 == removeNextLine(r2, markupComment(markupPrefix, RemoveNextLine))
      r4 == replaceNextLine(r3, markupComment(markupPrefix, ReplaceNextLine))
  IN IF r1.ok THEN [ok |-> TRUE, text |-> r4] ELSE r1

(***************************************************************************)
(* The files updateFiles and deleteFiles work on                           *)
(***************************************************************************)
Prefix == "@p"

\* Lines: a marker after //, after // and a space, in a JSX block comment.
Slashes(kind) == <<"/", "/">> \o markupComment(Prefix, kind)
SlashesSpace(kind) == <<"/", "/", " ">> \o markupComment(Prefix, kind)
BlockComment(kind) ==
  <<"{", "/", "*", " ">> \o markupComment(Prefix, kind) \o <<" ", "*", "/", "}">>
Code(w) == <<w>>
\* A comment that holds the prefix and none of the marker kinds.
PrefixOnly == <<"/", "/", Prefix, " ", "todo">>

Texts ==
  { <<>>,
    Join(<<Code("x"), Code("y")>>),
    Join(<<Slashes(RemoveCurrentLine), Code("x")>>),
    Join(<<SlashesSpace(RemoveCurrentLine), Code("x")>>),
    Join(<<Code("x"), Code("y"), BlockComment(RemoveNextLine), Code("x")>>),
    Join(<<Slashes(RemoveFile), Code("x")>>),
    Join(<<Slashes(RemoveBlockStart), Code("x"), Slashes(RemoveBlockEnd), Code("y")>>),
    Join(<<Code("x"), Slashes(RemoveBlockStart)>>),
    Join(<<Slashes(RemoveBlockEnd), Code("x"), Slashes(RemoveBlockStart)>>),
    Join(<<Slashes(ReplaceNextLine) \o <<" ", "z">>, Code("x")>>),
    Join(<<Code("x"), PrefixOnly>>) }

\* The texts of the files that can be read and not written.
ReadOnlyTexts ==
  { Join(<<Code("x"), Code("y")>>),
    Join(<<Slashes(RemoveCurrentLine), Code("x")>>) }

\* A file the process may read and may not write.
ReadOnly(d) == [kind |-> "readonly", data |-> d]

\* What a path can hold when updateFiles or deleteFiles is called.
DiskEntries ==
  {Missing} \cup {File(t) : t \in Texts} \cup {ReadOnly(t) : t \in ReadOnlyTexts}

Files == 1..MaxFiles
\* findFiles returns each file once.
filePaths == [i \in Files |-> i]

\* The text read from a path: <<>> when nothing can be read.
read(d, path) ==
  IF d[path].kind \in {"file", "readonly"} THEN d[path].data ELSE <<>>

(***************************************************************************)
(* updateFiles                                                             *)
(***************************************************************************)
\* Mutant: the update is carried out in a dry run too.
writesBackAlways(dry) == TRUE

\* `if (!dryRun) { ... }` around the update and the write
writesBack(dry) == ~dry

\* patching.writeAsync(path, updatedContents)
persist(d, path, text) == [d EXCEPT ![path] = File(text)]

\* The write is rejected: the file cannot be written.
writeAsyncFails(d, path) == d[path].kind = "readonly"

\* The body of the loop for one path: the new disk, lists and lastIndex, and
\* whether an exception left the call.
updateOne(d, path, prefix, dry, markupOnly, lastIdx, updated, skipped) ==
  LET contents == read(d, path)
      base == [disk |-> d, lastIndex |-> lastIdx, updatedFiles |-> updated,
               skippedFiles |-> skipped, threw |-> FALSE]
      hasMarkup == regexTest(prefix, contents, lastIdx)
  IN IF contents = <<>>
     THEN [base EXCEPT !.skippedFiles = Append(@, path)]
     ELSE IF ~hasMarkup.found
     THEN [base EXCEPT !.skippedFiles = Append(@, path),
                       !.lastIndex = hasMarkup.lastIndex]
     ELSE LET found == [base EXCEPT !.updatedFiles = Append(@, path),
                                    !.lastIndex = hasMarkup.lastIndex]
          IN IF ~writesBack(dry) THEN found
             ELSE IF markupOnly
             THEN IF writeAsyncFails(d, path)
                  THEN [found EXCEPT !.lastIndex = 0, !.threw = TRUE]
                  ELSE [found EXCEPT
                          !.disk = persist(d, path, regexReplace(prefix, contents)),
                          !.lastIndex = 0]
             ELSE LET r == updateFile(contents, prefix)
                  IN IF r.ok /\ ~writeAsyncFails(d, path)
                     THEN [found EXCEPT !.disk = persist(d, path, r.text)]
                     ELSE [found EXCEPT !.threw = TRUE]

NoCall == [dryRun |-> FALSE, updatedFiles |-> <<>>, skippedFiles |-> <<>>]

InitUpd ==
  /\ mode = "upd"
  /\ disk0 \in [Files -> DiskEntries]
  /\ disk = disk0
  /\ dryRun \in BOOLEAN
  /\ removeMarkupOnly \in BOOLEAN
  /\ lastIndex = 0
  /\ updatedFiles = <<>> /\ skippedFiles = <<>> /\ removedFiles = <<>>
  /\ fIdx = 1
  /\ upc = "loop"
  /\ call = 1
  /\ first = NoCall
  /\ GenIdle
  /\ DirsIdle
  /\ TxtIdle
  /\ CmdIdle

\* One iteration of `for (const path of filePaths)`.
UpdateStep ==
  /\ mode = "upd" /\ upc = "loop" /\ fIdx <= Len(filePaths)
  /\ LET r == updateOne(disk, filePaths[fIdx], Prefix, dryRun, removeMarkupOnly,
                        lastIndex, updatedFiles, skippedFiles)
     IN /\ disk' = r.disk
        /\ lastIndex' = r.lastIndex
        /\ updatedFiles' = r.updatedFiles
        /\ skippedFiles' = r.skippedFiles
        /\ upc' = IF r.threw THEN "threw" ELSE "loop"
        /\ fIdx' = IF r.threw THEN fIdx ELSE fIdx + 1
  /\ UNCHANGED <<mode, dryRun, disk0, removeMarkupOnly, removedFiles, call, first,
                 genVars, dirVars, txtVars, cmdVars>>

\* `return { updatedFiles, skippedFiles }`
UpdateReturn ==
  /\ mode = "upd" /\ upc = "loop" /\ fIdx > Len(filePaths)
  /\ upc' = "done"
  /\ UNCHANGED <<mode, dryRun, disk, disk0, removeMarkupOnly, lastIndex, updatedFiles,
                 skippedFiles, removedFiles, fIdx, call, first, genVars, dirVars, txtVars, cmdVars>>

\* updateFiles called again on the same paths, with the same prefix and
\* removeMarkupOnly: the call builds its own searchRegex.
UpdateAgain ==
  /\ mode = "upd" /\ upc = "done" /\ call = 1
  /\ first' = [dryRun |-> dryRun, updatedFiles |-> updatedFiles,
               skippedFiles |-> skippedFiles]
  /\ dryRun' \in BOOLEAN
  /\ lastIndex' = 0
  /\ updatedFiles' = <<>> /\ skippedFiles' = <<>>
  /\ fIdx' = 1
  /\ upc' = "loop"
  /\ call' = 2
  /\ UNCHANGED <<mode, disk, disk0, removeMarkupOnly, removedFiles, genVars, dirVars, txtVars, cmdVars>>

NextUpd == UpdateStep \/ UpdateReturn \/ UpdateAgain

(***************************************************************************)
(* deleteFiles                                                             *)
(***************************************************************************)
\* `if (!dryRun) { filesystem.remove(path) }`
removeFile(d, path, dry) == IF dry THEN d ELSE [d EXCEPT ![path] = Missing]

InitDel ==
  /\ mode = "del"
  /\ disk0 \in [Files -> DiskEntries]
  /\ disk = disk0
  /\ dryRun \in BOOLEAN
  /\ removeMarkupOnly = FALSE
  /\ lastIndex = 0
  /\ updatedFiles = <<>> /\ skippedFiles = <<>> /\ removedFiles = <<>>
  /\ fIdx = 1
  /\ upc = "loop"
  /\ call = 1
  /\ first = NoCall
  /\ GenIdle
  /\ DirsIdle
  /\ TxtIdle
  /\ CmdIdle

\* One iteration of the loop of deleteFiles.
DeleteStep ==
  /\ mode = "del" /\ upc = "loop" /\ fIdx <= Len(filePaths)
  /\ LET path == filePaths[fIdx]
         contents == read(disk, path)
     IN IF Includes(contents, markupComment(Prefix, RemoveFile))
        THEN /\ removedFiles' = Append(removedFiles, path)
             /\ disk' = removeFile(disk, path, dryRun)
        ELSE UNCHANGED <<removedFiles, disk>>
  /\ fIdx' = fIdx + 1
  /\ UNCHANGED <<mode, dryRun, disk0, removeMarkupOnly, lastIndex, updatedFiles,
                 skippedFiles, upc, call, first, genVars, dirVars, txtVars, cmdVars>>

\* `return removedFiles`
DeleteReturn ==
  /\ mode = "del" /\ upc = "loop" /\ fIdx > Len(filePaths)
  /\ upc' = "done"
  /\ UNCHANGED <<mode, dryRun, disk, disk0, removeMarkupOnly, lastIndex, updatedFiles,
                 skippedFiles, removedFiles, fIdx, call, first, genVars, dirVars, txtVars, cmdVars>>

NextDel == DeleteStep \/ DeleteReturn

(***************************************************************************)
(* removeEmptyDirs                                                         *)
(***************************************************************************)
Dirs == 1..MaxDirs
\* removedDirs is followed up to this many entries.
MaxRemoved == MaxDirs + 2

\* A directory's parent is an earlier directory, or 0 for targetDir itself.
Trees ==
  {t \in [Dirs -> [parent : 0..(MaxDirs - 1), hasFile : BOOLEAN, excluded : BOOLEAN]] :
     \A d \in Dirs : t[d].parent < d}

RECURSIVE matches(_, _)
\* The exclusion globs `!**/name{,/**}` reject a directory and all below it.
matches(t, d) ==
  /\ ~t[d].excluded
  /\ t[d].parent = 0 \/ matches(t, t[d].parent)

\* filesystem.list(path): the directory's files and its subdirectories
entries(t, pres, d) ==
  (IF t[d].hasFile THEN {<<"file", 0>>} ELSE {})
  \cup {<<"dir", c>> : c \in {x \in pres : t[x].parent = d}}

RECURSIVE Ascending(_)
Ascending(S) ==
  IF S = {} THEN <<>> ELSE <<Min(S)>> \o Ascending(S \ {Min(S)})

\* Mutant: a directory without files counts as empty.
getEmptyDirPathsNoFiles(t, pres) ==
  Ascending({d \in pres : matches(t, d) /\ ~t[d].hasFile})

\* find({ matching, directories: true }) filtered to the empty directories
getEmptyDirPaths(t, pres) ==
  Ascending({d \in pres : matches(t, d) /\ entries(t, pres, d) = {}})

\* `if (!dryRun) filesystem.remove(path)`
removeDir(pres, path, dry) == IF dry THEN pres ELSE pres \ {path}

RECURSIVE removeAll(_, _, _)
\* emptyDirPaths.forEach: the directories left
removeAll(pres, paths, dry) ==
  IF paths = <<>> THEN pres
  ELSE removeAll(removeDir(pres, Head(paths), dry), Tail(paths), dry)

pushAll(list, paths) ==
  LET all == list \o paths
  IN IF Len(all) <= MaxRemoved THEN all ELSE SubSeq(all, 1, MaxRemoved)

InitDirs ==
  /\ mode = "dirs"
  /\ tree \in Trees
  /\ present = Dirs
  /\ dryRun \in BOOLEAN
  /\ emptyDirPaths = <<>>
  /\ removedDirs = <<>>
  /\ dpc = "start"
  /\ GenIdle
  /\ UpdIdle
  /\ TxtIdle
  /\ CmdIdle

\* `let emptyDirPaths = getEmptyDirPaths()`
DirsFirstScan ==
  /\ mode = "dirs" /\ dpc = "start"
  /\ emptyDirPaths' = getEmptyDirPaths(tree, present)
  /\ dpc' = "loop"
  /\ UNCHANGED <<mode, dryRun, tree, present, removedDirs, genVars, updVars, txtVars, cmdVars>>

\* The forEach of one pass of `while (emptyDirPaths.length > 0)`.
DirsRemovePass ==
  /\ mode = "dirs" /\ dpc = "loop" /\ emptyDirPaths # <<>>
  /\ present' = removeAll(present, emptyDirPaths, dryRun)
  /\ removedDirs' = pushAll(removedDirs, emptyDirPaths)
  /\ dpc' = "rescan"
  /\ UNCHANGED <<mode, dryRun, tree, emptyDirPaths, genVars, updVars, txtVars, cmdVars>>

\* Mutant: the loop does not scan again after a pass.
DirsRescanNothing ==
  /\ mode = "dirs" /\ dpc = "rescan"
  /\ emptyDirPaths' = <<>>
  /\ dpc' = "loop"
  /\ UNCHANGED <<mode, dryRun, tree, present, removedDirs, genVars, updVars, txtVars, cmdVars>>

\* `emptyDirPaths = getEmptyDirPaths()` at the end of a pass.
DirsRescan ==
  /\ mode = "dirs" /\ dpc = "rescan"
  /\ emptyDirPaths' = getEmptyDirPaths(tree, present)
  /\ dpc' = "loop"
  /\ UNCHANGED <<mode, dryRun, tree, present, removedDirs, genVars, updVars, txtVars, cmdVars>>

\* `return removedDirs`
DirsReturn ==
  /\ mode = "dirs" /\ dpc = "loop" /\ emptyDirPaths = <<>>
  /\ dpc' = "done"
  /\ UNCHANGED <<mode, dryRun, tree, present, emptyDirPaths, removedDirs, genVars,
                 updVars, txtVars, cmdVars>>

NextDirs == DirsFirstScan \/ DirsRemovePass \/ DirsRescan \/ DirsReturn

\* The loop of removeEmptyDirs is synchronous: a step that can be taken is taken.
SpecDirs == InitDirs /\ [][NextDirs]_vars /\ WF_vars(NextDirs)

SpecMarkup ==
  (InitUpd \/ InitDel \/ InitDirs) /\ [][NextUpd \/ NextDel \/ NextDirs]_vars

(***************************************************************************)
(* The file name of a destination: options.case                            *)
(* A name is a sequence of symbols: a word in lower case, a word with a    *)
(* capital first letter, or one of the separators - _ . /                  *)
(***************************************************************************)
LowerWords == <<"user", "profile", "ts", "models">>
CapWords == <<"User", "Profile", "Ts", "Models">>
Separators == {"-", "_", ".", "/"}

WordIndex(w) ==
  CHOOSE i \in 1..Len(LowerWords) : LowerWords[i] = w \/ CapWords[i] = w
toLower(w) == LowerWords[WordIndex(w)]
upperFirst(w) == CapWords[WordIndex(w)]

RECURSIVE words(_)
\* The words of a string as the case functions of the strings toolbox split it:
\* a separator ends a word and is dropped, a capital letter starts a word.
words(str) ==
  IF str = <<>> THEN <<>>
  ELSE IF Head(str) \in Separators THEN words(Tail(str))
  ELSE <<toLower(Head(str))>> \o words(Tail(str))

RECURSIVE joinWords(_, _)
joinWords(ws, sep) ==
  IF ws = <<>> THEN <<>>
  ELSE IF Len(ws) = 1 THEN ws
  ELSE <<Head(ws)>> \o sep \o joinWords(Tail(ws), sep)

kebabCase(str) == joinWords(words(str), <<"-">>)
snakeCase(str) == joinWords(words(str), <<"_">>)
camelCase(str) ==
  LET ws == words(str)
  IN [i \in 1..Len(ws) |-> IF i = 1 THEN ws[i] ELSE upperFirst(ws[i])]
\* pascalCase is upperFirst of camelCase
pascalCase(str) ==
  LET ws == words(str)
  IN [i \in 1..Len(ws) |-> upperFirst(ws[i])]

CaseOptions == {"auto", "pascal", "camel", "kebab", "snake", "none"}

\* path.basename and path.dirname of a relative path
LastSlash(p) ==
  LET at == {i \in 1..Len(p) : p[i] = "/"}
  IN IF at = {} THEN 0 ELSE Max(at)
basename(p) == SubSeq(p, LastSlash(p) + 1, Len(p))
dirname(p) == SubSeq(p, 1, LastSlash(p) - 1)

\* `formattedFilename` after the chain of ifs on caseOption
formattedFilename(filename, option) ==
  IF option = "pascal" THEN pascalCase(filename)
  ELSE IF option = "kebab" THEN kebabCase(filename)
  ELSE IF option = "snake" THEN snakeCase(filename)
  ELSE IF option = "camel" THEN camelCase(filename)
  ELSE filename

appDir == <<"app">>

\* path.join(appDir(), path.dirname(relativePath), formattedFilename)
targetPathCase(relPath, option) ==
  appDir \o <<"/">>
    \o (IF dirname(relPath) = <<>> THEN <<>> ELSE dirname(relPath) \o <<"/">>)
    \o formattedFilename(basename(relPath), option)

\* The relative paths the templates of a generator resolve to.
RelativePaths ==
  { <<"models", "/", "User", "Profile", ".", "ts">>,
    <<"models", "/", "user", "-", "profile", ".", "ts">>,
    <<"My", "Models", "/", "user", "_", "profile", ".", "ts">>,
    <<"user", "Profile", ".", "ts">>,
    <<"User", "Profile">> }

(***************************************************************************)
(* The text and name functions called on their own                         *)
(***************************************************************************)
MaxLines == 4

Hash(kind) == <<"#">> \o markupComment(Prefix, kind)

\* The lines a text is made of: code, code followed by a marker, markers.
LineAlphabet ==
  { Code("x"), Code("y"), Code("z"),
    <<"y", " ">> \o Slashes(RemoveCurrentLine),
    Slashes(RemoveNextLine),
    Slashes(RemoveBlockStart),
    Slashes(RemoveBlockEnd),
    Slashes(ReplaceNextLine) \o <<" ", "REPLACED">>,
    Hash(ReplaceNextLine) \o <<" ", "REPLACED">> }

LineTexts ==
  {Join(ls) : ls \in UNION {[1..n -> LineAlphabet] : n \in 0..MaxLines}}

\* A comment token, optional whitespace, a marker.
CommentLines ==
  {token \o space \o markupComment(Prefix, kind) :
     token \in {<<"/", "/">>, <<"#">>}, space \in {<<>>, <<" ">>},
     kind \in MarkupComments}

\* Longer texts of code lines and block markers, so that two blocks have lines
\* before, between and after them.
BlockAlphabet ==
  {Code("x"), Code("y"), Slashes(RemoveBlockStart), Slashes(RemoveBlockEnd)}
BlockTexts ==
  {Join(ls) : ls \in UNION {[1..n -> BlockAlphabet] : n \in 0..(MaxLines + 2)}}

\* Lines in which the text after a replace-next-line comment holds a marker
\* comment, whole or with the "//" that replaceNextLine strips inside it.
SplitMarker(kind) == <<Prefix, "/", "/", " ", kind>>
NestedAlphabet ==
  { Code("x"),
    Slashes(ReplaceNextLine) \o <<" ">> \o Slashes(RemoveCurrentLine),
    SplitMarker(RemoveCurrentLine) \o <<" ">>
      \o markupComment(Prefix, ReplaceNextLine) }
NestedTexts ==
  {Join(ls) : ls \in UNION {[1..n -> NestedAlphabet] : n \in 1..(MaxLines - 1)}}

TextInputs == LineTexts \cup CommentLines \cup BlockTexts \cup NestedTexts

InitTxt ==
  /\ mode = "txt"
  /\ input \in TextInputs \cup RelativePaths
  /\ fn = "none"
  /\ caseOption = "auto"
  /\ output = NoReturn
  /\ dryRun = FALSE
  /\ GenIdle
  /\ UpdIdle
  /\ DirsIdle
  /\ CmdIdle

\* The call of function f has returned r.
Returns(f, r) ==
  /\ mode = "txt" /\ fn = "none"
  /\ fn' = f
  /\ output' = r
  /\ UNCHANGED <<mode, dryRun, input, genVars, updVars, dirVars, cmdVars>>

Value(text) == [ok |-> TRUE, text |-> text]

CallRemoveCurrentLine ==
  /\ input \in TextInputs
  /\ Returns("removeCurrentLine",
             Value(removeCurrentLine(input, markupComment(Prefix, RemoveCurrentLine))))
  /\ UNCHANGED caseOption

CallRemoveNextLine ==
  /\ input \in TextInputs
  /\ Returns("removeNextLine",
             Value(removeNextLine(input, markupComment(Prefix, RemoveNextLine))))
  /\ UNCHANGED caseOption

CallReplaceNextLine ==
  /\ input \in TextInputs
  /\ Returns("replaceNextLine",
             Value(replaceNextLine(input, markupComment(Prefix, ReplaceNextLine))))
  /\ UNCHANGED caseOption

CallRemoveBlocks ==
  /\ input \in TextInputs
  /\ Returns("removeBlocks",
             removeBlocks(input, markupComment(Prefix, RemoveBlockStart),
                          markupComment(Prefix, RemoveBlockEnd)))
  /\ UNCHANGED caseOption

CallUpdateFile ==
  /\ input \in TextInputs
  /\ Returns("updateFile", updateFile(input, Prefix))
  /\ UNCHANGED caseOption

\* updateFile called on the text a first call of updateFile returned.
CallUpdateFileAgain ==
  /\ mode = "txt" /\ fn = "updateFile" /\ output.ok
  /\ fn' = "updateFileAgain"
  /\ input' = output.text
  /\ output' = updateFile(output.text, Prefix)
  /\ UNCHANGED <<mode, dryRun, caseOption, genVars, updVars, dirVars, cmdVars>>

\* markupRegex(prefix).test(contents) on a new regex: the answer and the match
CallMarkupRegex ==
  /\ input \in TextInputs
  /\ LET m == exec(Prefix, input, 1)
     IN Returns("markupRegex",
                [ok |-> regexTest(Prefix, input, 0).found,
                 text |-> IF m.start = 0 THEN <<>>
                          ELSE SubSeq(input, m.start, m.end - 1)])
  /\ UNCHANGED caseOption

\* The destination of a template under one of the case options.
CallTargetPath ==
  /\ input \in RelativePaths
  /\ \E option \in CaseOptions :
       /\ caseOption' = option
       /\ Returns("targetPath", Value(targetPathCase(input, option)))

NextTxt ==
  \/ CallRemoveCurrentLine
  \/ CallRemoveNextLine
  \/ CallReplaceNextLine
  \/ CallRemoveBlocks
  \/ CallUpdateFile
  \/ CallUpdateFileAgain
  \/ CallMarkupRegex
  \/ CallTargetPath

SpecText == InitTxt /\ [][NextTxt]_vars

(***************************************************************************)
(* The commands: generate, remove-demo, remove-mst                         *)
(***************************************************************************)
\* availableGenerators(): the generators that come with the CLI
Available == {"component", "screen"}
availableGenerators == <<"component", "screen">>
NoGenerator == "none"

\* parameters.first is a generator of the CLI, another word, or absent;
\* parameters.second, the name, is present or not, and absent without a first.
GenerateParameters ==
  {q \in [first : Available \cup {"unknown", NoGenerator}, second : BOOLEAN,
          help : BOOLEAN, list : BOOLEAN, update : BOOLEAN] :
     q.first = NoGenerator => ~q.second}

Call(f, a) == [fn |-> f, arg |-> a]

\* Mutant: every generator passes.
validateGeneratorAlways(generator, inst) == TRUE

\* validateGenerator: installedGenerators().includes(generator)
validateGenerator(generator, inst) == generator \in inst

RECURSIVE installGenerators(_, _, _)
\* installGenerators: for each generator ensure ignite/templates, then copy the
\* files of its source directory that the project does not hold. find() on the
\* source directory of a word that is no generator of the CLI throws or finds
\* nothing (findThrows).
installGenerators(generators, inst, findThrows) ==
  IF generators = <<>> THEN [calls |-> <<>>, threw |-> FALSE]
  ELSE LET gen == Head(generators)
           ensure == <<Call("dir", "ignite/templates")>>
           rest == installGenerators(Tail(generators), inst, findThrows)
       IN IF gen \notin Available /\ findThrows
          THEN [calls |-> ensure, threw |-> TRUE]
          ELSE [calls |-> ensure
                          \o (IF gen \in Available /\ gen \notin inst
                              THEN <<Call("copy", gen)>> ELSE <<>>)
                          \o rest.calls,
                threw |-> rest.threw]

\* updateGenerators: only in an Ignite project; the generator named, or all
updateGenerators(q, inst, project, findThrows) ==
  IF ~project THEN [calls |-> <<Call("warning", "not a project")>>, threw |-> FALSE]
  ELSE installGenerators(IF q.first # NoGenerator THEN <<q.first>>
                         ELSE availableGenerators, inst, findThrows)

\* runGenerator: help or list, else update, else validate and go on to
\* generateFunc; `next` is where the command stands when runGenerator returns.
runGenerator(q, inst, project, findThrows) ==
  IF q.help \/ q.list
  THEN [calls |-> <<Call("showGeneratorHelp", "")>>, next |-> "done"]
  ELSE IF q.update
  THEN LET u == updateGenerators(q, inst, project, findThrows)
       IN [calls |-> <<Call("updateGenerators", "")>> \o u.calls,
           next |-> IF u.threw THEN "threw" ELSE "done"]
  ELSE IF q.first # NoGenerator
  THEN IF ~validateGenerator(q.first, inst)
       THEN [calls |-> <<Call("validateGenerator", q.first)>>, next |-> "done"]
       ELSE [calls |-> <<Call("validateGenerator", q.first),
                         Call("generateFunc", q.first)>>,
             next |-> "generate"]
  ELSE [calls |-> <<Call("showGeneratorHelp", "")>>, next |-> "done"]

\* What `await updateFiles(...)` resolves to: the object
\* { updatedFiles, skippedFiles }.
updateFilesResult == "object"
\* Array.prototype.sort exists on arrays only.
hasSort(value) == value = "array"

InitCmd ==
  /\ mode = "cmd"
  /\ command \in {"generate", "remove-demo", "remove-mst"}
  /\ IF command = "generate"
     THEN /\ parameters \in GenerateParameters
          /\ installed \in SUBSET Available
          /\ igniteProject \in BOOLEAN
          /\ dryRun = FALSE
     ELSE /\ parameters = NoParameters
          /\ installed = {}
          /\ igniteProject = TRUE
          /\ dryRun \in BOOLEAN
  /\ cpc = "start" /\ invoked = <<>> /\ results = "none"
  /\ GenIdle
  /\ UpdIdle
  /\ DirsIdle
  /\ TxtIdle

\* generate's run: runGenerator(toolbox, generate, generator)
RunGenerator ==
  /\ mode = "cmd" /\ command = "generate" /\ cpc = "start"
  /\ \E findThrows \in BOOLEAN :
       LET r == runGenerator(parameters, installed, igniteProject, findThrows)
       IN /\ invoked' = r.calls
          /\ cpc' = r.next
  /\ UNCHANGED <<mode, dryRun, command, parameters, installed, igniteProject,
                 results, genVars, updVars, dirVars, txtVars>>

\* generate(toolbox): without a name it warns and returns, else it calls
\* generateFromTemplate and reports.
Generate ==
  /\ mode = "cmd" /\ cpc = "generate"
  /\ invoked' = invoked \o
       (IF ~parameters.second THEN <<Call("warning", "no name")>>
        ELSE <<Call("generateFromTemplate", parameters.first)>>)
  /\ cpc' = "done"
  /\ UNCHANGED <<mode, dryRun, command, parameters, installed, igniteProject,
                 results, genVars, updVars, dirVars, txtVars>>

\* remove-demo and remove-mst up to the end of `await updateFiles(...)`, which
\* resolves, or rejects when a write fails.
RemoveUpdateFiles ==
  /\ mode = "cmd" /\ command \in {"remove-demo", "remove-mst"} /\ cpc = "start"
  /\ \E completes \in BOOLEAN :
       /\ ~completes => ~dryRun
       /\ invoked' = <<Call("findFiles", "")>>
            \o (IF command = "remove-mst" /\ ~dryRun
                THEN <<Call("removePackageJSONDependencies", "")>> ELSE <<>>)
            \o <<Call("updateFiles", "")>>
       /\ cpc' = IF completes THEN "updated" ELSE "threw"
       /\ results' = IF completes THEN updateFilesResult ELSE "none"
  /\ UNCHANGED <<mode, dryRun, command, parameters, installed, igniteProject,
                 genVars, updVars, dirVars, txtVars>>

\* The rest of the command: results.sort(...).forEach(...), removeEmptyDirs,
\* removeDemoAssets in remove-demo, the completion message.
RemoveReport ==
  /\ mode = "cmd" /\ cpc = "updated"
  /\ IF hasSort(results)
     THEN /\ invoked' = invoked
               \o <<Call("sort", ""), Call("removeEmptyDirs", "")>>
               \o (IF command = "remove-demo"
                   THEN <<Call("removeDemoAssets", "")>> ELSE <<>>)
               \o <<Call("p", "completion")>>
          /\ cpc' = "done"
     ELSE /\ invoked' = invoked \o <<Call("sort", "")>>
          /\ cpc' = "threw"
  /\ UNCHANGED <<mode, dryRun, command, parameters, installed, igniteProject,
                 results, genVars, updVars, dirVars, txtVars>>

NextCmd == RunGenerator \/ Generate \/ RemoveUpdateFiles \/ RemoveReport

\* A command runs to its end: no step is left waiting.
SpecCmd == InitCmd /\ [][NextCmd]_vars /\ WF_vars(NextCmd)

(***************************************************************************)
(* All operations                                                          *)
(***************************************************************************)
Init == InitGen \/ InitUpd \/ InitDel \/ InitDirs \/ InitTxt \/ InitCmd
Next == NextGen \/ NextUpd \/ NextDel \/ NextDirs \/ NextTxt \/ NextCmd
Spec == Init /\ [][Next]_vars

(***************************************************************************)
(* Properties of generateFromTemplate                                      *)
(***************************************************************************)
Returned == mode = "gen" /\ gpc = "done"

\* The templates that reach the destination computation, and their destinations.
HasTarget(i) ==
  ~templateFiles[i].blank /\ frontMatter(templateFiles[i]).result = "parts"
Target(i) == targetPath(frontMatter(templateFiles[i]).data, i)

Listed == Range(written) \cup Range(overwritten) \cup Range(exists)
Entries == Len(written) + Len(overwritten) + Len(exists)

NoRepeat(l) == \A i, j \in 1..Len(l) : i # j => l[i] # l[j]
ListsDisjoint ==
  /\ Range(written) \cap Range(overwritten) = {}
  /\ Range(written) \cap Range(exists) = {}
  /\ Range(overwritten) \cap Range(exists) = {}

\* No two iterations of the current call computed the same destination.
DistinctTargets ==
  \A i, j \in 1..Len(outcome) :
    (i # j /\ outcome[i].target # "") => outcome[i].target # outcome[j].target

\* C1 as stated: in the result of a run no destination path is in more than one
\* of the lists written, overwritten and exists, whatever the templates and
\* their front-matter path overrides.
C1_DisjointAnyTemplates == Returned => ListsDisjoint

\* C1, amended: every loop iteration adds its destination to at most one list,
\* and when no two templates resolve to the same destination no path is in
\* more than one list (nor twice in one).
C1_DisjointDistinctDests ==
  mode = "gen" =>
    /\ Entries <= Len(outcome)
    /\ DistinctTargets =>
         /\ ListsDisjoint
         /\ NoRepeat(written) /\ NoRepeat(overwritten) /\ NoRepeat(exists)

\* A run that returned, with distinct destinations, one written and one left alone.
C1_Witness ==
  Returned /\ DistinctTargets /\ written # <<>> /\ exists # <<>>

\* The destinations the first call created: absent before it, files after it.
CreatedByFirstRun ==
  {p \in GenPaths : fs0[p].kind = "missing" /\ prev.fs[p].kind = "file"}

NoDestinationExisted ==
  \A i \in 1..Len(templateFiles) : HasTarget(i) => fs0[Target(i)].kind = "missing"

\* C2: two calls with overwrite=false on a project where no destination exists:
\* the first records every destination it generated in written, the second
\* records those same paths in exists and nothing in written, overwritten is
\* empty both times, and the second call changes no file.
C2_Idempotent ==
  (Returned /\ run = 2 /\ ~overwrite /\ NoDestinationExisted) =>
    /\ Range(prev.result.written) = CreatedByFirstRun
    /\ Range(exists) = Range(prev.result.written)
    /\ written = <<>>
    /\ overwritten = <<>> /\ prev.result.overwritten = <<>>
    /\ fs = prev.fs

C2_Witness ==
  /\ Returned /\ run = 2 /\ ~overwrite /\ NoDestinationExisted
  /\ Len(prev.result.written) >= 2 /\ Len(exists) >= 2

\* The iteration about to run finds its destination present as a file while
\* overwrite is off.
AtExistingNoOverwrite ==
  /\ mode = "gen" /\ gpc = "loop" /\ tIdx <= Len(templateFiles)
  /\ HasTarget(tIdx)
  /\ fs[Target(tIdx)].kind = "file"
  /\ ~overwrite

\* C3: when the destination exists as a file and overwrite is false, the
\* iteration records the path in exists only and does nothing else: no render,
\* no write, no patch call, no file of the project changed.
C3_ExistingIsSkipped ==
  [][AtExistingNoOverwrite =>
       /\ exists' = Append(exists, Target(tIdx))
       /\ written' = written /\ overwritten' = overwritten
       /\ fs' = fs
       /\ log' = log
       /\ gpc' = "loop" /\ tIdx' = tIdx + 1]_vars

\* An iteration took the skip branch for a template that declares patches.
C3_Witness ==
  /\ mode = "gen" /\ ~overwrite
  /\ \E i \in 1..Len(outcome) :
       /\ outcome[i].branch = "exists"
       /\ templateFiles[i].patches # NoPatch
       /\ outcome[i].target \in Range(exists)

Failed(i) == outcome[i].branch \in {"renderFailed", "writeFailed"}
Contributed(i) ==
  outcome[i].branch \in {"exists", "written", "overwritten", "patchFailed"}
RECURSIVE CountContributed(_)
CountContributed(n) ==
  IF n = 0 THEN 0
  ELSE CountContributed(n - 1) + (IF Contributed(n) THEN 1 ELSE 0)

C5_ParseFailureIsContained ==
  mode = "gen" =>
    \A i \in 1..Len(outcome) : outcome[i].branch = "parseThrew" => gpc # "threw"

(***************************************************************************)
(* Properties of updateFiles, deleteFiles and removeEmptyDirs              *)
(***************************************************************************)
\* C6: with dryRun=true, updateFiles, deleteFiles and removeEmptyDirs change no
\* file's content and no directory's existence, at any step of the call.
C6_DryRunChangesNothing ==
  [][dryRun => (disk' = disk /\ present' = present)]_vars

\* A dry run of updateFiles returned and reported a file as updated.
C6_Witness ==
  /\ mode = "upd" /\ dryRun /\ call = 1 /\ upc = "done"
  /\ updatedFiles # <<>>
  /\ disk = disk0

\* C7: on the same files, with the same prefix and removeMarkupOnly, the dry
\* run of updateFiles returns the lists the real run returns.
C7_DryRunReportsTheSame ==
  (mode = "upd" /\ call = 2 /\ upc = "done" /\ first.dryRun /\ ~dryRun) =>
    /\ updatedFiles = first.updatedFiles
    /\ skippedFiles = first.skippedFiles

\* C8: removeEmptyDirs returns, whatever the tree and the dryRun option.
C8_Terminates == <>(dpc = "done")

Pos(list, x) == Min({i \in 1..Len(list) : list[i] = x})

\* c is an empty leaf and the only entry of its parent p, both found by the scan.
OnlyEntryOf(c, p) ==
  /\ tree[c].parent = p
  /\ matches(tree, c)
  /\ ~tree[c].hasFile /\ ~tree[p].hasFile
  /\ \A d \in Dirs : tree[d].parent # c
  /\ \A d \in Dirs : tree[d].parent = p => d = c

\* C9: when an empty leaf is the only entry of its parent, one call with
\* dryRun=false removes the leaf, then the parent, and returns both paths, the
\* leaf before the parent.
C9_LeafThenParent ==
  (mode = "dirs" /\ dpc = "done" /\ ~dryRun) =>
    \A c, p \in Dirs :
      OnlyEntryOf(c, p) =>
        /\ c \notin present /\ p \notin present
        /\ c \in Range(removedDirs) /\ p \in Range(removedDirs)
        /\ Pos(removedDirs, c) < Pos(removedDirs, p)

C9_Witness ==
  /\ mode = "dirs" /\ dpc = "done" /\ ~dryRun
  /\ \E c, p \in Dirs : OnlyEntryOf(c, p)
  /\ Len(removedDirs) >= 2

HoldsMarker(text) ==
  \E kind \in MarkupComments : Includes(text, markupComment(Prefix, kind))

\* C10: after a real pass of updateFiles with removeMarkupOnly=false, no file
\* of the list that still exists holds a marker of any of the six kinds.
C10_NoMarkerLeft ==
  (mode = "upd" /\ upc = "done" /\ ~dryRun /\ ~removeMarkupOnly) =>
    \A f \in Files : disk[f].kind = "file" => ~HoldsMarker(disk[f].data)

\* The files of the list the loop has dealt with.
Processed == {f \in Files : f < fIdx \/ upc = "done"}

HoldsPrefix(text) == Includes(text, <<Prefix>>)

\* C11 as stated, a marker being the string `<prefix> <kind>`: a file that holds
\* no marker is reported in skippedFiles only and keeps its content.
C11_NoMarkerIsSkipped ==
  mode = "upd" =>
    \A f \in Files :
      (disk0[f].kind # "missing" /\ ~HoldsMarker(disk0[f].data)) =>
        /\ disk[f] = disk0[f]
        /\ f \in Processed =>
             (f \in Range(skippedFiles) /\ f \notin Range(updatedFiles))

\* C11 amended: a file in which the prefix does not occur keeps its content
\* through updateFiles (dry run or not, either removeMarkupOnly value, one call
\* or two), and once the loop has dealt with it its path is in skippedFiles and
\* not in updatedFiles.
C11_NoPrefixIsSkipped ==
  mode = "upd" =>
    \A f \in Files :
      (disk0[f].kind # "missing" /\ ~HoldsPrefix(disk0[f].data)) =>
        /\ disk[f] = disk0[f]
        /\ f \in Processed =>
             (f \in Range(skippedFiles) /\ f \notin Range(updatedFiles))

C11_Witness ==
  /\ mode = "upd" /\ upc = "done" /\ ~dryRun
  /\ \E f, g \in Files :
       /\ disk0[f].kind = "file" /\ disk0[f].data # <<>>
       /\ ~HoldsPrefix(disk0[f].data)
       /\ f \in Range(skippedFiles)
       /\ g \in Range(updatedFiles) /\ disk[g] # disk0[g]

\* C12: a write that fails on one file does not end the call of updateFiles;
\* the loop goes on to the other files and the call returns its report.
C12_WriteFailureIsIsolated ==
  (mode = "upd" /\ fIdx \in Files /\ disk[filePaths[fIdx]].kind = "readonly") =>
    upc # "threw"

(***************************************************************************)
(* The transforms of a text                                                *)
(***************************************************************************)
Called(f) == mode = "txt" /\ fn = f

\* Line i of lines holds the marker of the kind.
Marked(lines, i, kind) ==
  i \in 1..Len(lines) /\ Includes(lines[i], markupComment(Prefix, kind))

Without(lines, gone) == Join(KeepLines(lines, (1..Len(lines)) \ gone, 1))

\* C13: removeNextLine returns the lines in their order, less every line that
\* holds the marker and every line that follows one; a marker on the last line
\* removes itself only, each of several marker lines in a row removes the line
\* after it; [x, marker, y, z] gives [x, z].
C13_RemoveNextLine ==
  Called("removeNextLine") =>
    LET lines == Split(input)
        n == Len(lines)
        markers == {i \in 1..n : Marked(lines, i, RemoveNextLine)}
        followers == {i \in 2..n : Marked(lines, i - 1, RemoveNextLine)}
    IN /\ output.text = Without(lines, markers \cup followers)
       /\ input = Join(<<Code("x"), Slashes(RemoveNextLine), Code("y"), Code("z")>>)
            => output.text = Join(<<Code("x"), Code("z")>>)

C13_Witness ==
  /\ Called("removeNextLine")
  /\ input = Join(<<Slashes(RemoveNextLine), Slashes(RemoveNextLine), Code("y"),
                    Code("z")>>)
  /\ output.text = Code("z")

\* The comment token of a marker line (`//` or `#`) and the marker removed, the
\* rest trimmed.
TextOfMarkerLine(line, comment) ==
  LET token == IF Includes(line, <<"/", "/">>) THEN <<"/", "/">> ELSE <<"#">>
  IN Trim(ReplaceFirst(ReplaceFirst(line, token, <<>>), comment, <<>>))

\* C14: replaceNextLine puts, in place of each line that follows a marker line,
\* the text of the marker line without its comment token (`//` or `#`) and
\* without the marker, trimmed, and drops the marker lines.
C14_ReplaceNextLine ==
  Called("replaceNextLine") =>
    LET lines == Split(input)
        comment == markupComment(Prefix, ReplaceNextLine)
        mapped == [i \in 1..Len(lines) |->
                     IF Marked(lines, i - 1, ReplaceNextLine)
                     THEN TextOfMarkerLine(lines[i - 1], comment)
                     ELSE lines[i]]
    IN output.text =
         Without(mapped, {i \in 1..Len(mapped) : Includes(mapped[i], comment)})

\* The number of block-start and of block-end lines among the first i lines.
Opened(lines, i) == Cardinality({j \in 1..i : Marked(lines, j, RemoveBlockStart)})
Closed(lines, i) == Cardinality({j \in 1..i : Marked(lines, j, RemoveBlockEnd)})
Depth(lines, i) == Opened(lines, i) - Closed(lines, i)

\* The blocks are independent: each start line is closed by a later end line
\* before the next start line, and no end line comes without its start line.
Independent(lines) ==
  /\ \A i \in 1..Len(lines) : Depth(lines, i) \in {0, 1}
  /\ Depth(lines, Len(lines)) = 0

\* The lines outside every block.
Outside(lines) ==
  {i \in 1..Len(lines) :
     /\ ~Marked(lines, i, RemoveBlockStart)
     /\ ~Marked(lines, i, RemoveBlockEnd)
     /\ Depth(lines, i) = 0}

RECURSIVE LastBlockFirst(_)
\* The blocks removed one at a time, the last block of the text first.
LastBlockFirst(lines) ==
  LET starts == {i \in 1..Len(lines) : Marked(lines, i, RemoveBlockStart)}
      s == Max(starts)
      e == Min({i \in s..Len(lines) : Marked(lines, i, RemoveBlockEnd)})
  IN IF starts = {} THEN lines
     ELSE LastBlockFirst(SubSeq(lines, 1, s - 1) \o SubSeq(lines, e + 1, Len(lines)))

\* C15: on a text whose blocks are independent, removeBlocks returns the lines
\* outside every block, in their order, without the marker lines; removing the
\* blocks in the opposite order gives the same text.
C15_RemoveBlocks ==
  (Called("removeBlocks") /\ Independent(Split(input))) =>
    LET lines == Split(input)
    IN /\ output.ok
       /\ output.text = Without(lines, (1..Len(lines)) \ Outside(lines))
       /\ output.text = Join(LastBlockFirst(lines))

C15_Witness ==
  /\ Called("removeBlocks")
  /\ Independent(Split(input))
  /\ Opened(Split(input), Len(Split(input))) >= 2
  /\ output.ok
  /\ output.text = Join(<<Code("x"), Code("y")>>)

\* C16: removeCurrentLine returns the lines that do not hold the marker, in
\* their order and unaltered, and drops every line that holds it.
C16_RemoveCurrentLine ==
  Called("removeCurrentLine") =>
    LET lines == Split(input)
    IN output.text =
         Without(lines, {i \in 1..Len(lines) : Marked(lines, i, RemoveCurrentLine)})

C16_Witness ==
  /\ Called("removeCurrentLine")
  /\ \E i \in 1..Len(Split(input)) : Marked(Split(input), i, RemoveCurrentLine)
  /\ \E i \in 1..Len(Split(input)) : Marked(Split(input), i, RemoveNextLine)
  /\ Len(Split(output.text)) = Len(Split(input)) - 1

\* C17: updateFile(text, prefix) is block removal, then current-line removal,
\* then next-line removal, then next-line replacement, each on the output of
\* the one before, with the markers `<prefix> <kind>`; when block removal does
\* not return, neither does updateFile.
C17_UpdateFileIsThePipeline ==
  Called("updateFile") =>
    LET blocks == removeBlocks(input, <<Prefix, " ", RemoveBlockStart>>,
                               <<Prefix, " ", RemoveBlockEnd>>)
        current == removeCurrentLine(blocks.text, <<Prefix, " ", RemoveCurrentLine>>)
        next == removeNextLine(current, <<Prefix, " ", RemoveNextLine>>)
        replaced == replaceNextLine(next, <<Prefix, " ", ReplaceNextLine>>)
    IN /\ output.ok = blocks.ok
       /\ output.ok => output.text = replaced

C17_Witness ==
  /\ Called("updateFile")
  /\ input = Join(<<Slashes(RemoveNextLine), <<"y", " ">> \o Slashes(RemoveCurrentLine),
                    Code("x")>>)
  /\ output = [ok |-> TRUE, text |-> <<>>]

(***************************************************************************)
(* The case option, the detector, removeMarkupOnly                         *)
(***************************************************************************)
Extension(p) == SubSeq(p, Len(p) - 1, Len(p))
HasExtension(p) == Len(p) >= 2 /\ p[Len(p) - 1] = "."

\* C18: the case option keeps the extension of the file name and leaves the
\* directory segments as they are; kebab turns UserProfile.ts into
\* user-profile.ts, pascal turns user-profile.ts into UserProfile.ts.
C18_CaseKeepsExtension ==
  (Called("targetPath") /\ HasExtension(input)) =>
    /\ Extension(output.text) = Extension(input)
    /\ dirname(output.text) =
         appDir \o (IF dirname(input) = <<>> THEN <<>> ELSE <<"/">> \o dirname(input))
    /\ (caseOption = "kebab" /\ basename(input) = <<"User", "Profile", ".", "ts">>)
         => basename(output.text) = <<"user", "-", "profile", ".", "ts">>
    /\ (caseOption = "pascal" /\ basename(input) = <<"user", "-", "profile", ".", "ts">>)
         => basename(output.text) = <<"User", "Profile", ".", "ts">>

\* C19: a line made of a comment token (`//` or `#`), optional whitespace and
\* the marker `<prefix> <kind>` is matched by markupRegex(prefix).
C19_MarkerLineIsMatched ==
  (Called("markupRegex") /\ input \in CommentLines) => output.ok

RECURSIVE IsSubsequence(_, _)
\* a is b with some of its symbols taken out.
IsSubsequence(a, b) ==
  IF a = <<>> THEN TRUE
  ELSE IF b = <<>> THEN FALSE
  ELSE IF Head(a) = Head(b) THEN IsSubsequence(Tail(a), Tail(b))
  ELSE IsSubsequence(a, Tail(b))

\* C20: with removeMarkupOnly=true updateFiles deletes and replaces no line:
\* every file keeps its number of lines, a line in which the prefix does not
\* occur is unchanged, and a line in which it occurs only loses text.
C20_MarkupOnlyKeepsTheLines ==
  (mode = "upd" /\ removeMarkupOnly) =>
    \A f \in Files :
      disk0[f].kind = "file" =>
        LET before == Split(disk0[f].data)
            after == Split(disk[f].data)
        IN /\ disk[f].kind = "file"
           /\ Len(after) = Len(before)
           /\ \A i \in 1..Len(before) :
                /\ IsSubsequence(after[i], before[i])
                /\ ~HoldsPrefix(before[i]) => after[i] = before[i]

C20_Witness ==
  /\ mode = "upd" /\ removeMarkupOnly /\ ~dryRun /\ upc = "done"
  /\ \E f \in Files :
       /\ disk0[f] = File(Join(<<Code("x"), Code("y"), BlockComment(RemoveNextLine),
                                 Code("x")>>))
       /\ disk[f] # disk0[f]

(***************************************************************************)
(* Patches and front matter                                                *)
(***************************************************************************)
\* The directives template i declares: the `patches` list, then `patch`.
Directives(i) == templateFiles[i].patches \o templateFiles[i].patch

\* The destination of template i was written in this call.
Wrote(i) == outcome[i].branch \in {"written", "overwritten", "patchFailed"}

RECURSIVE CallsFrom(_, _)
\* The calls logged for template i from position k of the log on: <<op, path>>.
CallsFrom(i, k) ==
  IF k > Len(log) THEN <<>>
  ELSE (IF log[k].t = i THEN <<(<<log[k].op, log[k].path>>)>> ELSE <<>>)
         \o CallsFrom(i, k + 1)
CallsOf(i) == CallsFrom(i, 1)

\* The patching calls made for template i.
PatchCalls(i) ==
  {k \in 1..Len(log) : log[k].t = i /\ log[k].op \notin {"render", "write"}}

\* C22: a patch directive that fails (its target is missing) does not keep the
\* directives declared after it from being applied, and the loop goes on with
\* the next template.
C22_PatchFailureIsIsolated ==
  mode = "gen" =>
    \A i \in 1..Len(outcome) :
      Wrote(i) =>
        /\ tIdx > i
        /\ \A d \in 1..Len(Directives(i)) :
             ~Directives(i)[d].skip =>
               \E k \in PatchCalls(i) : log[k].path = Directives(i)[d].path

\* C23: the generic patcher is called only for a directive that has generic
\* options, and only with them (never with the append, prepend or replace
\* keys); a directive with `skip: true` makes no call.
C23_OnlyDeclaredOperations ==
  mode = "gen" =>
    \A i \in 1..Len(outcome) :
      /\ \A k \in PatchCalls(i) :
           log[k].op = "patch" =>
             /\ log[k].opts # {}
             /\ log[k].opts \cap {"append", "prepend", "replace"} = {}
      /\ (\A d \in 1..Len(Directives(i)) : Directives(i)[d].skip) => PatchCalls(i) = {}

\* The calls a directive declares, in the order append, prepend, replace,
\* generic patcher.
DeclaredCalls(d) ==
  IF d.skip THEN <<>>
  ELSE (IF d.append THEN <<(<<"append", d.path>>)>> ELSE <<>>)
       \o (IF d.prepend THEN <<(<<"prepend", d.path>>)>> ELSE <<>>)
       \o (IF d.replace THEN <<(<<"replace", d.path>>)>> ELSE <<>>)
       \o <<(<<"patch", d.path>>)>>

RECURSIVE ExpectedCalls(_)
ExpectedCalls(ds) ==
  IF ds = <<>> THEN <<>> ELSE DeclaredCalls(Head(ds)) \o ExpectedCalls(Tail(ds))

IsPrefix(a, b) == Len(a) <= Len(b) /\ a = SubSeq(b, 1, Len(a))

\* C24: for a template that is written, the render and the write of the
\* destination come before every patching call of the template; the patching
\* calls follow the declaration order of the directives (`patches`, then
\* `patch`) and, within a directive, the order append, prepend, replace, generic
\* patcher. A call that fails is the last one of its template.
C24_WriteThenPatchesInOrder ==
  mode = "gen" =>
    \A i \in 1..Len(outcome) :
      Wrote(i) =>
        LET calls == CallsOf(i)
            patchCalls == SubSeq(calls, 3, Len(calls))
        IN /\ Len(calls) >= 2
           /\ calls[1] = <<"render", outcome[i].target>>
           /\ calls[2] = <<"write", outcome[i].target>>
           /\ IsPrefix(patchCalls, ExpectedCalls(Directives(i)))
           /\ outcome[i].branch # "patchFailed"
                => patchCalls = ExpectedCalls(Directives(i))

\* A written template with a directive of four operations and a single `patch`.
C24_Witness ==
  /\ mode = "gen"
  /\ \E i \in 1..Len(outcome) :
       /\ outcome[i].branch = "written"
       /\ templateFiles[i].patch # NoPatch
       /\ Len(CallsOf(i)) = 8

\* C28: a template whose text splits into a number of parts other than 1 or 3
\* is taken as a template without front matter: the default destination is
\* derived and nothing is raised.
C28_OtherPartCountIsNoFrontMatter ==
  mode = "gen" =>
    \A i \in 1..Len(outcome) :
      (templateFiles[i].fm = "multi" /\ ~templateFiles[i].blank) =>
        /\ gpc # "threw"
        /\ outcome[i].branch \in {"exists", "written", "overwritten"}
        /\ outcome[i].target = DefaultDest(i)

(***************************************************************************)
(* Termination of removeBlocks, the state of the detector, the reaper      *)
(***************************************************************************)
\* C25: removeBlocks returns on every text (ok is FALSE when the recursion
\* goes on with the text it was given, which it does without end).
C25_RemoveBlocksReturns == Called("removeBlocks") => output.ok

C29_OnlyEmptyDirsRemoved ==
  /\ [][(mode = "dirs" /\ ~dryRun) =>
          \A d \in present \ present' :
            /\ ~tree[d].hasFile
            /\ \A c \in present' : tree[c].parent # d
            /\ entries(tree, present, d) = {}]_vars
  /\ []((mode = "dirs" /\ ~dryRun /\ dpc = "done") =>
          \A d \in present : matches(tree, d) => entries(tree, present, d) # {})

\* A call returned that removed a leaf and then its parent and kept a directory
\* that holds a file.
C29_Witness ==
  /\ mode = "dirs" /\ ~dryRun /\ dpc = "done"
  /\ Len(removedDirs) >= 2
  /\ \E d \in present : tree[d].hasFile /\ matches(tree, d)

\* C30: updateFile is idempotent: called on the text it returned, it returns
\* that text.
C30_UpdateFileIsIdempotent ==
  Called("updateFileAgain") => (output.ok /\ output.text = input)

(***************************************************************************)
(* The commands                                                            *)
(***************************************************************************)
Requested == parameters.first # NoGenerator
HasCalled(f) == \E k \in 1..Len(invoked) : invoked[k].fn = f
\* The calls that change the project.
SideEffects == {"dir", "copy", "generateFromTemplate"}
NoSideEffect == \A k \in 1..Len(invoked) : invoked[k].fn \notin SideEffects
\* The generator asked for is not installed, or the name is missing.
Invalid ==
  /\ mode = "cmd" /\ command = "generate"
  /\ (Requested /\ parameters.first \notin installed) \/ ~parameters.second

\* C21: when the generator asked for is not installed, or the name is missing,
\* the generate command makes no call that changes the project.
C21_InvalidHasNoSideEffect == Invalid => NoSideEffect

\* C21, amended: when the generator asked for is not installed, or the name is
\* missing, generateFromTemplate is never called, and unless the command runs
\* with --update (and neither --help nor --list) no call changes the project.
C21_InvalidHasNoSideEffectButUpdate ==
  Invalid =>
    /\ ~HasCalled("generateFromTemplate")
    /\ (parameters.help \/ parameters.list \/ ~parameters.update) => NoSideEffect

\* A generator that is not installed was validated, with a name given.
C21_Witness ==
  /\ Invalid /\ cpc = "done"
  /\ parameters.second /\ ~parameters.update
  /\ HasCalled("validateGenerator")

\* C27: once updateFiles has completed in remove-demo or remove-mst,
\* removeEmptyDirs is called and the command reaches its completion message.
C27_ReaperFollowsUpdateFiles ==
  (mode = "cmd" /\ cpc = "updated") ~>
    (cpc = "done" /\ HasCalled("removeEmptyDirs") /\ HasCalled("p"))

====
